---- MODULE Spec2Model ----
(***************************************************************************)
(* Model of the binary mesh exporter of custom-blender-utils               *)
(* (src/custom_mesh_export.py): the two corner clusterers, the vertex      *)
(* permutation enumerator, the skin slot selection and the container       *)
(* writer of export_mesh.                                                  *)
(*                                                                         *)
(* Conventions.  Indices are 0-based as in the source; a Python list is a  *)
(* sequence whose element with index i sits at position i + 1.  Lengths    *)
(* are measured on a grid on which the source's tolerance 0.001 is         *)
(* Tolerance grid units, so `(a - b).length < 0.001` is the exact integer  *)
(* test LenSq(a - b) < Tolerance^2.  Weights are measured in units of      *)
(* which One make up the weight 1.0.                                       *)
(***************************************************************************)
EXTENDS Integers, Sequences, FiniteSets, TLC

\* ------------------------------------------------------------------------
\* Bounds of the explored meshes
\* ------------------------------------------------------------------------
MaxVerts == 4
MaxPolys == 3
MaxGroups == 5

\* ------------------------------------------------------------------------
\* Vectors (mathutils.Vector)
\* ------------------------------------------------------------------------
Sub(a, b) == [i \in DOMAIN a |-> a[i] - b[i]]

RECURSIVE SumSq(_, _)
SumSq(a, n) == IF n = 0 THEN 0 ELSE a[n] * a[n] + SumSq(a, n - 1)

LenSq(a) == SumSq(a, Len(a))

\* the tolerance 0.001 of both clusterers, in grid units
Tolerance == 3

\* (c - rep).length < 0.001
Within(c, rep) == LenSq(Sub(c, rep)) < Tolerance * Tolerance

\* ------------------------------------------------------------------------
\* Small list helpers
\* ------------------------------------------------------------------------
At(list, i) == list[i + 1]

SetAt(list, i, x) == [list EXCEPT ![i + 1] = x]

Range0(n) == 0 .. (n - 1)

RECURSIVE SumSeq(_, _)
SumSeq(s, n) == IF n = 0 THEN 0 ELSE s[n] + SumSeq(s, n - 1)

RECURSIVE Concat(_, _)
Concat(ss, n) == IF n = 0 THEN << >> ELSE Concat(ss, n - 1) \o ss[n]

Max(S) == CHOOSE x \in S : \A y \in S : y <= x

\* Python's None as an element of a list of vectors, and as the UV layer
None == << >>
NoLayer == [none |-> TRUE]

\* ------------------------------------------------------------------------
\* The explored meshes
\* ------------------------------------------------------------------------
\* u coordinates of the UV of a corner; 0 and 3 are exactly the tolerance
\* apart, 2 is within the tolerance of both and nearer to 3
UCoords == {0, 2, 3}

\* face normals A and B are exactly the tolerance apart; the vertex normal
\* used by smooth polygons is within the tolerance of both and nearer to B
NormalA == <<0, 0, 3000>>
NormalB == <<3, 0, 3000>>
NormalV == <<2, 0, 3000>>

Shadings == {"flatA", "flatB", "smooth"}

\* weights of a bone influence; the largest one is the weight 1.0
Weights == {0, 1, 2}
One == Max(Weights)

\* first bone group index of a vertex: with the higher base the later
\* groups of a vertex lie beyond the range of an unsigned byte
GroupBases == {0, 254}

VertexCo(v) == <<v + 1, 2 * v + 3, 0 - (v + 5)>>

\* the vertices of polygon p (a triangle): "stack" puts every polygon on
\* the vertices 0, 1, 2; "fan" turns the polygons around vertex 0
PolyVerts(topo, p) ==
    IF topo = "stack" THEN <<0, 1, 2>>
    ELSE <<0, 1 + (p % 3), 1 + ((p + 1) % 3)>>

PolyNormal(shading) == IF shading = "flatB" THEN NormalB ELSE NormalA

MkPolygon(p, shading) ==
    [loop_indices |-> <<3 * p, 3 * p + 1, 3 * p + 2>>,
     use_smooth |-> (shading = "smooth"),
     normal |-> PolyNormal(shading)]

MkVertex(v, groups) ==
    [index |-> v, co |-> VertexCo(v), normal |-> NormalV, groups |-> groups]

\* a mesh of nv vertices and np triangles; us[p + 1] is the u coordinate of
\* the corners of polygon p, sh[p + 1] its shading, gs[v + 1] the influence
\* list of vertex v, uv says whether the mesh has a UV layer
MkMesh(nv, np, topo, us, sh, gs, uv) ==
    [vertices |-> [i \in 1 .. nv |-> MkVertex(i - 1, gs[i])],
     loops |-> [i \in 1 .. 3 * np |->
                  [index |-> i - 1,
                   vertex_index |-> PolyVerts(topo, (i - 1) \div 3)[((i - 1) % 3) + 1]]],
     polygons |-> [i \in 1 .. np |-> MkPolygon(i - 1, sh[i])],
     uv_layers |-> IF uv
                   THEN << [data |-> [i \in 1 .. 3 * np |->
                              [uv |-> <<us[((i - 1) \div 3) + 1], 10 * ((i - 1) % 3)>>]]] >>
                   ELSE << >>,
     loop_triangles |-> << >>]

Topologies == {"stack", "fan"}

\* the empty mesh, and meshes of at least the 4 vertices of a fan
VertCounts == {0} \cup (4 .. MaxVerts)

PolyCounts(nv) == IF nv = 0 THEN {0} ELSE 0 .. MaxPolys

NoGroups(nv) == [i \in 1 .. nv |-> << >>]

\* influence lists of n influences whose group indices count up from a base
GroupList(n, base, ws) ==
    [i \in 1 .. n |-> [group |-> base + i - 1, weight |-> ws[i]]]

\* a mesh that exercises the clusterers: every polygon chooses its UV and
\* its shading; the polygons with the UV that is within the tolerance of
\* the two others and the smooth polygons are the same, or there are none
\* of the one kind
IsClusterMesh(m) ==
    \E nv \in VertCounts : \E np \in PolyCounts(nv) : \E topo \in Topologies :
      \E us \in [1 .. np -> UCoords] : \E sh \in [1 .. np -> Shadings] :
        /\ \/ \A p \in 1 .. np : us[p] # 2
           \/ \A p \in 1 .. np : sh[p] # "smooth"
           \/ \A p \in 1 .. np : (us[p] = 2) <=> (sh[p] = "smooth")
        /\ m = MkMesh(nv, np, topo, us, sh, NoGroups(nv), TRUE)

\* a mesh without a UV layer
IsNoUVMesh(m) ==
    \E nv \in VertCounts : \E np \in PolyCounts(nv) : \E topo \in Topologies :
        m = MkMesh(nv, np, topo, [i \in 1 .. np |-> 0],
                   [i \in 1 .. np |-> "flatA"], NoGroups(nv), FALSE)

\* the cube: vertex v has the bits of v as its coordinates, the 6 quads
\* are flat shaded and list their 4 vertices around the face
CubeFaces ==
    << <<0, 4, 6, 2>>, <<1, 3, 7, 5>>, <<0, 1, 5, 4>>,
       <<2, 6, 7, 3>>, <<0, 2, 3, 1>>, <<4, 5, 7, 6>> >>

CubeNormals ==
    << <<0 - 3000, 0, 0>>, <<3000, 0, 0>>, <<0, 0 - 3000, 0>>,
       <<0, 3000, 0>>, <<0, 0, 0 - 3000>>, <<0, 0, 3000>> >>

CubeCo(v) ==
    <<2000 * (v % 2) - 1000, 2000 * ((v \div 2) % 2) - 1000, 2000 * (v \div 4) - 1000>>

\* the UV of corner k of face f: every face has its own island, a square;
\* the islands lie side by side ("atlas") or on top of each other ("overlap")
CubeLayouts == {"atlas", "overlap"}

CubeUV(cube_layout, f, k) ==
    <<(IF cube_layout = "atlas" THEN 1000 * f ELSE 0) + (IF k \in {1, 2} THEN 900 ELSE 0),
      IF k \in {2, 3} THEN 900 ELSE 0>>

MkCube(cube_layout) ==
    [vertices |-> [i \in 1 .. 8 |->
                     [index |-> i - 1, co |-> CubeCo(i - 1),
                      normal |-> <<1732 * (2 * ((i - 1) % 2) - 1),
                                   1732 * (2 * (((i - 1) \div 2) % 2) - 1),
                                   1732 * (2 * ((i - 1) \div 4) - 1)>>,
                      groups |-> << >>]],
     loops |-> [i \in 1 .. 24 |->
                  [index |-> i - 1,
                   vertex_index |-> CubeFaces[((i - 1) \div 4) + 1][((i - 1) % 4) + 1]]],
     polygons |-> [f \in 1 .. 6 |->
                     [loop_indices |-> <<4 * (f - 1), 4 * (f - 1) + 1,
                                         4 * (f - 1) + 2, 4 * (f - 1) + 3>>,
                      use_smooth |-> FALSE,
                      normal |-> CubeNormals[f]]],
     uv_layers |-> << [data |-> [i \in 1 .. 24 |->
                        [uv |-> CubeUV(cube_layout, (i - 1) \div 4, (i - 1) % 4)]]] >>,
     loop_triangles |-> << >>]

\* a hard-shaded cube with a UV island per face
IsCubeMesh(m) == \E cube_layout \in CubeLayouts : m = MkCube(cube_layout)

\* a mesh that exercises the skin selection: two triangles on the same
\* three vertices with face normals a tolerance apart, so that every
\* vertex has two permutations; vertex 0 chooses its influence list, of at
\* most MaxGroups influences
IsSkinMesh(m) ==
    \E n \in 0 .. MaxGroups : \E base \in GroupBases : \E ws \in [1 .. n -> Weights] :
        m = MkMesh(3, 2, "stack", <<0, 0>>, <<"flatA", "flatB">>,
                   <<GroupList(n, base, ws), <<[group |-> 1, weight |-> 2]>>, << >> >>,
                   TRUE)

\* ------------------------------------------------------------------------
\* map_vertex_uvs
\* ------------------------------------------------------------------------
\* the scan `for i in range(len(uv_list))` from index i on: the index of
\* the first cluster whose uv is within the tolerance of c_uv, -1 if none
\* the scan that looks at the first cluster only
FindUVFirstOnly(uv_list, c_uv, i) ==
    IF i >= Len(uv_list) THEN 0 - 1
    ELSE IF Within(c_uv, At(uv_list, i)[1]) THEN i
    ELSE 0 - 1

RECURSIVE FindUV(_, _, _)
FindUV(uv_list, c_uv, i) ==
    IF i >= Len(uv_list) THEN 0 - 1
    ELSE IF Within(c_uv, At(uv_list, i)[1]) THEN i
    ELSE FindUV(uv_list, c_uv, i + 1)

\* one iteration of the loop over zip(mesh.loops, uv_layer.data);
\* acc = <<vertex_uv_lists, loop_uv_inds>>
UVStep(acc, loop, c_uv) ==
    LET uv_list == At(acc[1], loop.vertex_index)
        i == FindUV(uv_list, c_uv, 0)
    IN  IF i >= 0
        THEN <<SetAt(acc[1], loop.vertex_index,
                     SetAt(uv_list, i,
                           <<At(uv_list, i)[1], Append(At(uv_list, i)[2], loop.index)>>)),
               SetAt(acc[2], loop.index, i)>>
        ELSE <<SetAt(acc[1], loop.vertex_index,
                     Append(uv_list, <<c_uv, <<loop.index>> >>)),
               SetAt(acc[2], loop.index, Len(uv_list))>>

\* the iterations lo .. hi of the loop, from the loop state acc: the
\* first half of them, then the second half from the state the first
\* half ended in (a loop state is never the empty tuple; the test has the
\* state computed before the second half starts)
RECURSIVE MapUVRun(_, _, _, _, _)
MapUVRun(m, uv_data, acc, lo, hi) ==
    IF lo > hi THEN acc
    ELSE IF lo = hi THEN UVStep(acc, m.loops[lo], uv_data[lo].uv)
    ELSE LET half == MapUVRun(m, uv_data, acc, lo, (lo + hi) \div 2)
         IN  IF half = << >> THEN half
             ELSE MapUVRun(m, uv_data, half, (lo + hi) \div 2 + 1, hi)

\* the state of the loop after its first n iterations
MapUVLoop(m, uv_data, n) ==
    MapUVRun(m, uv_data,
             <<[v \in 1 .. Len(m.vertices) |-> << >>], [l \in 1 .. Len(m.loops) |-> 0]>>,
             1, n)

map_vertex_uvs(m, layer) == MapUVLoop(m, layer.data, Len(m.loops))

\* ------------------------------------------------------------------------
\* map_vertex_normals
\* ------------------------------------------------------------------------
\* the normals of the corners of a polygon: the face normal if the polygon
\* is flat shaded, the normal of the corner's vertex otherwise
\* the corner normals that take the vertex normal whatever the shading
PolyCornerNormalsOfVertex(m, poly) ==
    [k \in 1 .. Len(poly.loop_indices) |->
        At(m.vertices, At(m.loops, poly.loop_indices[k]).vertex_index).normal]

PolyCornerNormals(m, poly) ==
    [k \in 1 .. Len(poly.loop_indices) |->
        IF ~poly.use_smooth THEN poly.normal
        ELSE At(m.vertices, At(m.loops, poly.loop_indices[k]).vertex_index).normal]

\* the pairs (c_n, loop) in the order the two nested loops visit them
PolyCorners(m, poly) ==
    [k \in 1 .. Len(poly.loop_indices) |->
        <<PolyCornerNormals(m, poly)[k], At(m.loops, poly.loop_indices[k])>>]

NormalCorners(m) ==
    Concat([p \in 1 .. Len(m.polygons) |-> PolyCorners(m, m.polygons[p])],
           Len(m.polygons))

\* the scan without its break: the last cluster within the tolerance
RECURSIVE FindNormalNoBreak(_, _, _)
FindNormalNoBreak(normals_list, c_n, i) ==
    IF i >= Len(normals_list) THEN 0 - 1
    ELSE LET later == FindNormalNoBreak(normals_list, c_n, i + 1)
         IN  IF later >= 0 THEN later
             ELSE IF Within(c_n, At(normals_list, i)[1]) THEN i
             ELSE 0 - 1

RECURSIVE FindNormal(_, _, _)
FindNormal(normals_list, c_n, i) ==
    IF i >= Len(normals_list) THEN 0 - 1
    ELSE IF Within(c_n, At(normals_list, i)[1]) THEN i
    ELSE FindNormal(normals_list, c_n, i + 1)

\* one iteration of the inner loop over the corners of a polygon;
\* acc = <<vertex_normals_list, loop_normal_inds>>
NormalStep(acc, loop, c_n) ==
    LET normals_list == At(acc[1], loop.vertex_index)
        i == FindNormal(normals_list, c_n, 0)
    IN  IF i >= 0
        THEN <<SetAt(acc[1], loop.vertex_index,
                     SetAt(normals_list, i,
                           <<At(normals_list, i)[1],
                             Append(At(normals_list, i)[2], loop.index)>>)),
               SetAt(acc[2], loop.index, i)>>
        ELSE <<SetAt(acc[1], loop.vertex_index,
                     Append(normals_list, <<c_n, <<loop.index>> >>)),
               SetAt(acc[2], loop.index, Len(normals_list))>>

\* the iterations lo .. hi of the two nested loops, from the state acc
RECURSIVE MapNormalRun(_, _, _, _)
MapNormalRun(corners, acc, lo, hi) ==
    IF lo > hi THEN acc
    ELSE IF lo = hi THEN NormalStep(acc, corners[lo][2], corners[lo][1])
    ELSE LET half == MapNormalRun(corners, acc, lo, (lo + hi) \div 2)
         IN  IF half = << >> THEN half
             ELSE MapNormalRun(corners, half, (lo + hi) \div 2 + 1, hi)

MapNormalLoop(m, corners, n) ==
    MapNormalRun(corners,
                 <<[v \in 1 .. Len(m.vertices) |-> << >>], [l \in 1 .. Len(m.loops) |-> 0]>>,
                 1, n)

map_vertex_normals(m) ==
    LET corners == NormalCorners(m)
    IN  MapNormalLoop(m, corners, Len(corners))

\* ------------------------------------------------------------------------
\* find_vertex_permutations
\* ------------------------------------------------------------------------
\* the scan that compares the uv cluster only
RECURSIVE ScanPermsUVOnly(_, _, _, _, _)
ScanPermsUVOnly(perms, c_uv_ind, c_normal_ind, i, r) ==
    IF i >= Len(perms) THEN r
    ELSE ScanPermsUVOnly(perms, c_uv_ind, c_normal_ind, i + 1,
                         IF c_uv_ind = At(perms, i)[2]
                         THEN <<TRUE, At(perms, i)[1]>>
                         ELSE r)

\* the scan `for i in range(len(perms))` from index i on; it has no break:
\* r = <<found, ind>> ends with the output index of the last match
RECURSIVE ScanPerms(_, _, _, _, _)
ScanPerms(perms, c_uv_ind, c_normal_ind, i, r) ==
    IF i >= Len(perms) THEN r
    ELSE ScanPerms(perms, c_uv_ind, c_normal_ind, i + 1,
                   IF c_uv_ind = At(perms, i)[2] /\ c_normal_ind = At(perms, i)[3]
                   THEN <<TRUE, At(perms, i)[1]>>
                   ELSE r)

\* the iteration with `if not found:` indented into the scan: the scan of
\* an empty list never reaches it, so no permutation is ever appended
PermStepAppendInScan(acc, loop, c_uv_ind, c_normal_ind) ==
    LET perms == At(acc[1], loop.vertex_index)
        r == ScanPerms(perms, c_uv_ind, c_normal_ind, 0, <<FALSE, 0>>)
    IN  IF r[1] \/ Len(perms) = 0
        THEN <<acc[1], SetAt(acc[2], loop.index, r[2]), acc[3]>>
        ELSE <<SetAt(acc[1], loop.vertex_index,
                     Append(perms, <<acc[3], c_uv_ind, c_normal_ind>>)),
               SetAt(acc[2], loop.index, acc[3]),
               acc[3] + 1>>

\* one iteration of the loop over the corners;
\* acc = <<vertex_permutations, loop_inds, c_index>>
PermStep(acc, loop, c_uv_ind, c_normal_ind) ==
    LET perms == At(acc[1], loop.vertex_index)
        r == ScanPerms(perms, c_uv_ind, c_normal_ind, 0, <<FALSE, 0>>)
    IN  IF r[1]
        THEN <<acc[1], SetAt(acc[2], loop.index, r[2]), acc[3]>>
        ELSE <<SetAt(acc[1], loop.vertex_index,
                     Append(perms, <<acc[3], c_uv_ind, c_normal_ind>>)),
               SetAt(acc[2], loop.index, acc[3]),
               acc[3] + 1>>

\* the iterations lo .. hi of the loop over the corners, from the state acc
RECURSIVE PermRun(_, _, _, _, _, _)
PermRun(m, uv_inds, normal_inds, acc, lo, hi) ==
    IF lo > hi THEN acc
    ELSE IF lo = hi THEN PermStep(acc, m.loops[lo], uv_inds[lo], normal_inds[lo])
    ELSE LET half == PermRun(m, uv_inds, normal_inds, acc, lo, (lo + hi) \div 2)
         IN  IF half = << >> THEN half
             ELSE PermRun(m, uv_inds, normal_inds, half, (lo + hi) \div 2 + 1, hi)

PermLoop(m, uv_inds, normal_inds, n) ==
    PermRun(m, uv_inds, normal_inds,
            <<[v \in 1 .. Len(m.vertices) |-> << >>], [l \in 1 .. Len(m.loops) |-> 0], 0>>,
            1, n)

find_vertex_permutations(m, uv_inds, normal_inds) ==
    PermLoop(m, uv_inds, normal_inds, Len(m.loops))

\* ------------------------------------------------------------------------
\* export_mesh: skin slots of one vertex
\* ------------------------------------------------------------------------
\* `for i in range(num_joints): if weights[i] < group.weight: ...; break`
\* from index i on: the first slot with a smaller weight, -1 if none
\* the scan that gives up after the first slot
FindSlotFirstOnly(weights, w, i, num_joints) ==
    IF i >= num_joints THEN 0 - 1
    ELSE IF At(weights, i) < w THEN i
    ELSE 0 - 1

RECURSIVE FindSlot(_, _, _, _)
FindSlot(weights, w, i, num_joints) ==
    IF i >= num_joints THEN 0 - 1
    ELSE IF At(weights, i) < w THEN i
    ELSE FindSlot(weights, w, i + 1, num_joints)

\* one iteration of `for group in vert.groups`;
\* acc = <<joint_inds, weights, num_joints>>
SlotStep(acc, group) ==
    IF acc[3] < 4
    THEN <<SetAt(acc[1], acc[3], group.group),
           SetAt(acc[2], acc[3], group.weight),
           acc[3] + 1>>
    ELSE LET i == FindSlot(acc[2], group.weight, 0, acc[3])
         IN  IF i >= 0
             THEN <<SetAt(acc[1], i, group.group), SetAt(acc[2], i, group.weight), acc[3]>>
             ELSE acc

RECURSIVE SlotLoop(_, _)
SlotLoop(groups, n) ==
    IF n = 0 THEN <<<<0, 0, 0, 0>>, <<0, 0, 0, 0>>, 0>>
    ELSE SlotStep(SlotLoop(groups, n - 1), groups[n])

\* the sum and the division of the weights: `weight = weight / weight_sum`
\* assigns to the loop variable, so the list `weights` keeps its elements
Normalize(weights) ==
    LET weight_sum == SumSeq(weights, Len(weights))
        weight == [i \in 1 .. Len(weights) |->
                     IF weight_sum > 0 THEN (weights[i] * One) \div weight_sum
                     ELSE weights[i]]
    IN  weights

\* <<joint_inds, weights>> of a vertex
SkinOf(vert) ==
    LET acc == SlotLoop(vert.groups, Len(vert.groups))
    IN  <<acc[1], Normalize(acc[2])>>

\* ------------------------------------------------------------------------
\* export_mesh: the output vertices
\* ------------------------------------------------------------------------
\* the position of an output vertex: Vector((-co.x, co.z, co.y))
RemapCo(co) == <<0 - co[1], co[3], co[2]>>

\* arrs = <<positions, normals, uvs, joint_weights, joint_indices>>;
\* `for (ind, _, _) in perms` of the skinning branch, first n permutations
\* the skinning branch that writes the first permutation of a vertex only
SkinWriteFirstOnly(arrs, perms, skin, n) ==
    IF n = 0 THEN arrs
    ELSE LET ind == perms[1][1]
         IN  <<arrs[1], arrs[2], arrs[3],
               SetAt(arrs[4], ind, skin[2]), SetAt(arrs[5], ind, skin[1])>>

RECURSIVE SkinWrite(_, _, _, _)
SkinWrite(arrs, perms, skin, n) ==
    IF n = 0 THEN arrs
    ELSE LET a == SkinWrite(arrs, perms, skin, n - 1)
             ind == perms[n][1]
         IN  <<a[1], a[2], a[3], SetAt(a[4], ind, skin[2]), SetAt(a[5], ind, skin[1])>>

\* `for (ind, uv_ind, normal_ind) in perms`, first n permutations
RECURSIVE PermWrite(_, _, _, _, _, _)
PermWrite(arrs, vert, perms, v_normals, v_uvs, n) ==
    IF n = 0 THEN arrs
    ELSE LET a == PermWrite(arrs, vert, perms, v_normals, v_uvs, n - 1)
             ind == perms[n][1]
             uv == At(At(v_uvs, vert.index), perms[n][2])[1]
             normal == At(At(v_normals, vert.index), perms[n][3])[1]
         IN  <<SetAt(a[1], ind, RemapCo(vert.co)),
               SetAt(a[2], ind, normal),
               SetAt(a[3], ind, uv),
               a[4], a[5]>>

\* one iteration of `for (vert, perms) in zip(mesh.vertices, vertex_perms)`
VertexStep(arrs, vert, perms, v_normals, v_uvs, skinning) ==
    PermWrite(IF skinning
              THEN SkinWrite(arrs, perms, SkinOf(vert), Len(perms))
              ELSE arrs,
              vert, perms, v_normals, v_uvs, Len(perms))

RECURSIVE VertexLoop(_, _, _, _, _, _, _)
VertexLoop(m, perms, v_normals, v_uvs, skinning, count, n) ==
    IF n = 0
    THEN <<[i \in 1 .. count |-> None],
           [i \in 1 .. count |-> None],
           [i \in 1 .. count |-> None],
           IF skinning THEN [i \in 1 .. count |-> None] ELSE << >>,
           IF skinning THEN [i \in 1 .. count |-> None] ELSE << >> >>
    ELSE LET arrs == VertexLoop(m, perms, v_normals, v_uvs, skinning, count, n - 1)
         IN  IF arrs = << >> THEN arrs
             ELSE VertexStep(arrs, m.vertices[n], perms[n], v_normals, v_uvs, skinning)

\* the triangulation of the polygons (mesh.calc_loop_triangles): a polygon
\* of k corners gives the k - 2 triangles of the fan around its first corner
PolyTriangles(poly) ==
    [t \in 1 .. (Len(poly.loop_indices) - 2) |->
        [loops |-> <<poly.loop_indices[1], poly.loop_indices[t + 1],
                     poly.loop_indices[t + 2]>>]]

LoopTriangles(m) ==
    Concat([p \in 1 .. Len(m.polygons) |-> PolyTriangles(m.polygons[p])],
           Len(m.polygons))

\* the flattening that lists the corners of every triangle backwards
TriIndsBackwards(m, l_inds) ==
    Concat([t \in 1 .. Len(m.loop_triangles) |->
              [k \in 1 .. Len(m.loop_triangles[t].loops) |->
                  At(l_inds, m.loop_triangles[t].loops[
                                Len(m.loop_triangles[t].loops) + 1 - k])]],
           Len(m.loop_triangles))

\* reduce(list.__add__, [[loop_inds[i] for i in tri.loops] for tri in ...], [])
TriInds(m, l_inds) ==
    Concat([t \in 1 .. Len(m.loop_triangles) |->
              [k \in 1 .. Len(m.loop_triangles[t].loops) |->
                  At(l_inds, m.loop_triangles[t].loops[k])]],
           Len(m.loop_triangles))

\* ------------------------------------------------------------------------
\* struct: formats are sequences of (count, code) fields
\* ------------------------------------------------------------------------
Fmt3f == <<[n |-> 3, c |-> "f"]>>
Fmt2f == <<[n |-> 2, c |-> "f"]>>
Fmt4f == <<[n |-> 4, c |-> "f"]>>
Fmt4B == <<[n |-> 4, c |-> "B"]>>
FmtI(n) == <<[n |-> n, c |-> "I"]>>
FmtS(n) == <<[n |-> n, c |-> "s"]>>

\* header_fmt = "<8sB3I" and attrib_fmt = "<2I"
header_fmt == <<[n |-> 8, c |-> "s"], [n |-> 1, c |-> "B"], [n |-> 3, c |-> "I"]>>
attrib_fmt == <<[n |-> 2, c |-> "I"]>>

\* bytes of one item of a format code (standard sizes, no padding)
CodeSize(c) == IF c \in {"I", "f"} THEN 4 ELSE 1

\* struct.calcsize
RECURSIVE CalcSizeTo(_, _)
CalcSizeTo(fmt, n) ==
    IF n = 0 THEN 0 ELSE fmt[n].n * CodeSize(fmt[n].c) + CalcSizeTo(fmt, n - 1)

CalcSize(fmt) == CalcSizeTo(fmt, Len(fmt))

\* the number of arguments a format takes: an "s" field takes one
RECURSIVE ArgCountTo(_, _)
ArgCountTo(fmt, n) ==
    IF n = 0 THEN 0
    ELSE (IF fmt[n].c = "s" THEN 1 ELSE fmt[n].n) + ArgCountTo(fmt, n - 1)

\* whether struct.pack(fmt, *vals) returns: vals unpacks to the right
\* number of arguments and every "B" argument is an unsigned byte
PackOK(fmt, vals) ==
    /\ vals # None
    /\ Len(vals) = ArgCountTo(fmt, Len(fmt))
    /\ \A k \in 1 .. Len(fmt) :
          fmt[k].c = "B" => \A j \in 1 .. Len(vals) : vals[j] \in 0 .. 255

Pack(fmt, vals) == [fmt |-> fmt, vals |-> vals]

NameLen(name) ==
    CASE name = "position" -> 8
      [] name = "normal" -> 6
      [] name = "texCoord" -> 8
      [] name = "jointWeights" -> 12
      [] name = "jointIndices" -> 12

\* c_str: the name and a terminating zero byte
c_str(name) == Pack(FmtS(NameLen(name) + 1), <<name>>)

\* ------------------------------------------------------------------------
\* export_mesh as a state machine
\* ------------------------------------------------------------------------
\* The skeleton of the exported object
\* ------------------------------------------------------------------------
\* find_armature() of an object that no armature deforms
NoArmature == [none |-> TRUE]

\* the name of the vertex group of index g: the rig names the group after
\* the bone it follows, and names are numbers here
VertexGroupName(g) == g

\* the armatures an object may have: none, the bones named 0 and 1 in the
\* order of the vertex groups, and the same two bones in the other order
Armatures == {NoArmature, [bones |-> <<0, 1>>], [bones |-> <<1, 0>>]}

\* ------------------------------------------------------------------------
VARIABLES
    mesh,                  \* object.data
    export_skinning_data,  \* the argument of export_mesh
    armature,              \* object.find_armature()
    pc,                    \* the statement export_mesh is at
    error,                 \* the exception that ended the call, "none" if none
    result,                \* the value returned, "none" before the return
    file,                  \* the file at the target path
    uv_layer,
    vertex_uvs, loop_uv_inds,
    vertex_normals, loop_normal_inds,
    vertex_perms, loop_inds, num_vertices,
    tri_inds,
    positions, normals, uvs, joint_weights, joint_indices,
    attrib_infos, attrib_sizes, attrib_offsets, vertex_size

\* VKMB_OP_bake_material.execute and the bakers it runs
VARIABLES
    bpc,                    \* the statement the operator is at
    berror,                 \* the exception that ended the call, "none" if none
    selection,              \* context.selected_objects: per object its material slots
    props,                  \* context.scene.VKMaterialBakeProps
    engine, samples,        \* scene.render.engine, scene.cycles.samples
    old_engine, old_samples,
    trees,                  \* material |-> its node tree
    before,                 \* the node trees and the scene when execute was called
    trees_prebake,          \* the node trees when the current baker was called
    added_nodes,            \* the operator's dict tree |-> list of nodes
    baker_index,            \* the position in the list `bakers`
    node_tree_changes,      \* of the current baker
    current_tree_changes,   \* of the current baker
    next_id,                \* the identity of the next node or link created
    object_images,          \* per object the bake types it has an image of
    bake_materials          \* the materials created from the bakes

bake == <<bpc, berror, selection, props, engine, samples, old_engine, old_samples,
          trees, before, trees_prebake, added_nodes, baker_index, node_tree_changes,
          current_tree_changes, next_id, object_images, bake_materials>>

inputs == <<mesh, export_skinning_data, armature>>
clusters == <<vertex_uvs, loop_uv_inds, vertex_normals, loop_normal_inds>>
permutations == <<vertex_perms, loop_inds, num_vertices>>
arrays == <<positions, normals, uvs, joint_weights, joint_indices>>
layout == <<attrib_infos, attrib_sizes, attrib_offsets, vertex_size>>

vars == <<mesh, export_skinning_data, armature, pc, error, result, file, uv_layer,
          vertex_uvs, loop_uv_inds, vertex_normals, loop_normal_inds,
          vertex_perms, loop_inds, num_vertices, tri_inds,
          positions, normals, uvs, joint_weights, joint_indices,
          attrib_infos, attrib_sizes, attrib_offsets, vertex_size, bake>>

\* no file at the target path
NoFile == [exists |-> FALSE, written |-> << >>]

\* the bake operator is not running
BakeIdle ==
    /\ bpc = "idle" /\ berror = "none"
    /\ selection = << >> /\ props = << >>
    /\ engine = "none" /\ samples = 0 /\ old_engine = "none" /\ old_samples = 0
    /\ trees = << >> /\ before = << >> /\ trees_prebake = << >> /\ added_nodes = << >>
    /\ baker_index = 0 /\ node_tree_changes = << >> /\ current_tree_changes = 0
    /\ next_id = 0 /\ object_images = << >> /\ bake_materials = << >>

Init ==
    /\ \/ IsClusterMesh(mesh) /\ export_skinning_data = FALSE /\ armature = NoArmature
       \/ IsNoUVMesh(mesh) /\ export_skinning_data = FALSE /\ armature = NoArmature
       \/ IsSkinMesh(mesh) /\ export_skinning_data = TRUE /\ armature \in Armatures
       \/ IsCubeMesh(mesh) /\ export_skinning_data = FALSE /\ armature = NoArmature
    /\ BakeIdle
    /\ pc = "open"
    /\ error = "none"
    /\ result = "none"
    /\ file = NoFile
    /\ uv_layer = NoLayer
    /\ vertex_uvs = << >> /\ loop_uv_inds = << >>
    /\ vertex_normals = << >> /\ loop_normal_inds = << >>
    /\ vertex_perms = << >> /\ loop_inds = << >> /\ num_vertices = 0
    /\ tri_inds = << >>
    /\ positions = << >> /\ normals = << >> /\ uvs = << >>
    /\ joint_weights = << >> /\ joint_indices = << >>
    /\ attrib_infos = << >> /\ attrib_sizes = << >> /\ attrib_offsets = << >>
    /\ vertex_size = 0

\* an exception leaves export_mesh: the with statement closes the file,
\* which keeps what was written to it
Raise(e) ==
    /\ pc' = "failed"
    /\ error' = e

\* open(filename, "wb") creates the file, or empties it
Open ==
    /\ pc = "open"
    /\ file' = [exists |-> TRUE, written |-> << >>]
    /\ pc' = "uv_layer"
    /\ UNCHANGED <<bake, inputs, error, result, uv_layer, clusters, permutations,
                   tri_inds, arrays, layout>>

\* open(filename, "wb") raises OSError: nothing is created
OpenRaise ==
    /\ pc = "open"
    /\ Raise("OSError")
    /\ UNCHANGED <<bake, inputs, result, file, uv_layer, clusters, permutations,
                   tri_inds, arrays, layout>>

\* uv_layer = mesh.uv_layers[0] if mesh.uv_layers else None
SelectUVLayer ==
    /\ pc = "uv_layer"
    /\ uv_layer' = IF mesh.uv_layers # << >> THEN mesh.uv_layers[1] ELSE NoLayer
    /\ pc' = "triangulate"
    /\ UNCHANGED <<bake, inputs, error, result, file, clusters, permutations,
                   tri_inds, arrays, layout>>

\* if not mesh.loop_triangles: mesh.calc_loop_triangles()
CalcLoopTriangles ==
    /\ pc = "triangulate"
    /\ mesh' = IF mesh.loop_triangles = << >>
               THEN [mesh EXCEPT !.loop_triangles = LoopTriangles(mesh)]
               ELSE mesh
    /\ pc' = "map_uvs"
    /\ UNCHANGED <<bake, export_skinning_data, armature, error, result, file, uv_layer,
                   clusters, permutations, tri_inds, arrays, layout>>

\* (vertex_uvs, loop_uv_inds) = map_vertex_uvs(mesh, uv_layer)
MapVertexUVs ==
    /\ pc = "map_uvs"
    /\ uv_layer # NoLayer
    /\ LET r == map_vertex_uvs(mesh, uv_layer)
       IN  vertex_uvs' = r[1] /\ loop_uv_inds' = r[2]
    /\ pc' = "map_normals"
    /\ UNCHANGED <<bake, inputs, error, result, file, uv_layer, vertex_normals,
                   loop_normal_inds, permutations, tri_inds, arrays, layout>>

\* map_vertex_uvs(mesh, None): `uv_layer.data` raises AttributeError
MapVertexUVsRaise ==
    /\ pc = "map_uvs"
    /\ uv_layer = NoLayer
    /\ Raise("AttributeError")
    /\ UNCHANGED <<bake, inputs, result, file, uv_layer, clusters, permutations,
                   tri_inds, arrays, layout>>

\* (vertex_normals, loop_normal_inds) = map_vertex_normals(mesh)
MapVertexNormals ==
    /\ pc = "map_normals"
    /\ LET r == map_vertex_normals(mesh)
       IN  vertex_normals' = r[1] /\ loop_normal_inds' = r[2]
    /\ pc' = "find_perms"
    /\ UNCHANGED <<bake, inputs, error, result, file, uv_layer, vertex_uvs, loop_uv_inds,
                   permutations, tri_inds, arrays, layout>>

\* (vertex_perms, loop_inds, num_vertices) = find_vertex_permutations(...)
FindVertexPermutations ==
    /\ pc = "find_perms"
    /\ LET r == find_vertex_permutations(mesh, loop_uv_inds, loop_normal_inds)
       IN  vertex_perms' = r[1] /\ loop_inds' = r[2] /\ num_vertices' = r[3]
    /\ pc' = "tri_inds"
    /\ UNCHANGED <<bake, inputs, error, result, file, uv_layer, clusters, tri_inds,
                   arrays, layout>>

\* tri_inds = reduce(list.__add__, ...)
ComputeTriInds ==
    /\ pc = "tri_inds"
    /\ tri_inds' = TriInds(mesh, loop_inds)
    /\ pc' = "vertices"
    /\ UNCHANGED <<bake, inputs, error, result, file, uv_layer, clusters, permutations,
                   arrays, layout>>

\* the allocation of the five lists and the loop over the vertices
BuildVertices ==
    /\ pc = "vertices"
    /\ LET a == VertexLoop(mesh, vertex_perms, vertex_normals, vertex_uvs,
                           export_skinning_data, num_vertices, Len(mesh.vertices))
       IN  /\ positions' = a[1]
           /\ normals' = a[2]
           /\ uvs' = a[3]
           /\ joint_weights' = a[4]
           /\ joint_indices' = a[5]
    /\ pc' = "layout"
    /\ UNCHANGED <<bake, inputs, error, result, file, uv_layer, clusters, permutations,
                   tri_inds, layout>>

\* the loop with `vertex_size = attrib_sizes[-1]` for `vertex_size += ...`
RECURSIVE LayoutLoopNoSum(_, _)
LayoutLoopNoSum(infos, n) ==
    IF n = 0 THEN <<<< >>, << >>, 0>>
    ELSE LET acc == LayoutLoopNoSum(infos, n - 1)
             size == CalcSize(infos[n][2])
         IN  <<Append(acc[1], size), Append(acc[2], acc[3]), size>>

\* the loop that fills attrib_sizes and attrib_offsets, first n attributes;
\* acc = <<attrib_sizes, attrib_offsets, vertex_size>>
RECURSIVE LayoutLoop(_, _)
LayoutLoop(infos, n) ==
    IF n = 0 THEN <<<< >>, << >>, 0>>
    ELSE LET acc == LayoutLoop(infos, n - 1)
             size == CalcSize(infos[n][2])
         IN  <<Append(acc[1], size), Append(acc[2], acc[3]), acc[3] + size>>

\* attrib_infos, with the two skinning attributes if they are exported
\* the attribute list with the texture coordinate before the normal
AttribInfosUVFirst(skinning, ps, ns, ts, jws, jis) ==
    <<<<"position", Fmt3f, ps>>, <<"texCoord", Fmt2f, ts>>, <<"normal", Fmt3f, ns>> >>
    \o (IF skinning
        THEN <<<<"jointWeights", Fmt4f, jws>>, <<"jointIndices", Fmt4B, jis>> >>
        ELSE << >>)

AttribInfos(skinning, ps, ns, ts, jws, jis) ==
    <<<<"position", Fmt3f, ps>>, <<"normal", Fmt3f, ns>>, <<"texCoord", Fmt2f, ts>> >>
    \o (IF skinning
        THEN <<<<"jointWeights", Fmt4f, jws>>, <<"jointIndices", Fmt4B, jis>> >>
        ELSE << >>)

BuildAttribLayout ==
    /\ pc = "layout"
    /\ attrib_infos' = AttribInfos(export_skinning_data, positions, normals, uvs,
                                   joint_weights, joint_indices)
    /\ LET acc == LayoutLoop(attrib_infos', Len(attrib_infos'))
       IN  /\ attrib_sizes' = acc[1]
           /\ attrib_offsets' = acc[2]
           /\ vertex_size' = acc[3]
    /\ pc' = "header"
    /\ UNCHANGED <<bake, inputs, error, result, file, uv_layer, clusters, permutations,
                   tri_inds, arrays>>

\* f.write(data) for each element of a sequence of packed data
Write(f, packs) == [f EXCEPT !.written = f.written \o packs]

\* the header tuple with the count of the source vertices
HeaderOfSourceVertices(infos, v_size, v_count, inds) ==
    <<"meshfile", Len(infos), v_size, Len(mesh.vertices), Len(inds)>>

\* the header tuple
Header(infos, v_size, v_count, inds) ==
    <<"meshfile", Len(infos), v_size, v_count, Len(inds)>>

WriteHeader ==
    /\ pc = "header"
    /\ file' = Write(file, <<Pack(header_fmt,
                                  Header(attrib_infos, vertex_size, num_vertices,
                                         tri_inds))>>)
    /\ pc' = "attribs"
    /\ UNCHANGED <<bake, inputs, error, result, uv_layer, clusters, permutations,
                   tri_inds, arrays, layout>>

\* the two writes of `for i in range(len(attrib_infos))`, first n attributes
RECURSIVE AttribPacks(_, _, _, _)
AttribPacks(infos, sizes, offsets, n) ==
    IF n = 0 THEN << >>
    ELSE AttribPacks(infos, sizes, offsets, n - 1)
         \o <<c_str(infos[n][1]), Pack(attrib_fmt, <<sizes[n], offsets[n]>>)>>

WriteAttributes ==
    /\ pc = "attribs"
    /\ file' = Write(file, AttribPacks(attrib_infos, attrib_sizes, attrib_offsets,
                                       Len(attrib_infos)))
    /\ pc' = "vbuf"
    /\ UNCHANGED <<bake, inputs, error, result, uv_layer, clusters, permutations,
                   tri_inds, arrays, layout>>

\* the arguments of the struct.pack calls of the vertex buffer, in the
\* order of the two nested loops: vertex i, then attribute
VertexPackArgs(infos, count) ==
    [k \in 1 .. count * Len(infos) |->
        LET i == (k - 1) \div Len(infos)
            a == ((k - 1) % Len(infos)) + 1
        IN  <<infos[a][2], At(infos[a][3], i)>>]

\* the number of calls before the first one that raises
GoodPrefix(args, k) ==
    LET raising == {j \in k .. Len(args) : ~PackOK(args[j][1], args[j][2])}
    IN  IF raising = {} THEN Len(args)
        ELSE (CHOOSE j \in raising : \A i \in raising : j <= i) - 1

VertexPacks(args, n) == [k \in 1 .. n |-> Pack(args[k][1], args[k][2])]

WriteVertexBuffer ==
    /\ pc = "vbuf"
    /\ LET args == VertexPackArgs(attrib_infos, num_vertices)
       IN  /\ GoodPrefix(args, 1) = Len(args)
           /\ file' = Write(file, VertexPacks(args, Len(args)))
    /\ pc' = "ibuf"
    /\ UNCHANGED <<bake, inputs, error, result, uv_layer, clusters, permutations,
                   tri_inds, arrays, layout>>

\* struct.pack raises struct.error in the middle of the vertex buffer
WriteVertexBufferRaise ==
    /\ pc = "vbuf"
    /\ LET args == VertexPackArgs(attrib_infos, num_vertices)
       IN  /\ GoodPrefix(args, 1) < Len(args)
           /\ file' = Write(file, VertexPacks(args, GoodPrefix(args, 1)))
    /\ Raise("struct.error")
    /\ UNCHANGED <<bake, inputs, result, uv_layer, clusters, permutations,
                   tri_inds, arrays, layout>>

WriteIndexBuffer ==
    /\ pc = "ibuf"
    /\ file' = Write(file, <<Pack(FmtI(Len(tri_inds)), tri_inds)>>)
    /\ pc' = "return"
    /\ UNCHANGED <<bake, inputs, error, result, uv_layer, clusters, permutations,
                   tri_inds, arrays, layout>>

\* f.write raises OSError (disk full): the file keeps what it holds
WriteRaise ==
    /\ pc \in {"header", "attribs", "vbuf", "ibuf"}
    /\ Raise("OSError")
    /\ UNCHANGED <<bake, inputs, result, file, uv_layer, clusters, permutations,
                   tri_inds, arrays, layout>>

\* the with statement closes the file; return {'FINISHED'}
Return ==
    /\ pc = "return"
    /\ result' = "FINISHED"
    /\ pc' = "done"
    /\ UNCHANGED <<bake, inputs, error, file, uv_layer, clusters, permutations,
                   tri_inds, arrays, layout>>

Next ==
    \/ Open
    \/ OpenRaise
    \/ SelectUVLayer
    \/ CalcLoopTriangles
    \/ MapVertexUVs
    \/ MapVertexUVsRaise
    \/ MapVertexNormals
    \/ FindVertexPermutations
    \/ ComputeTriInds
    \/ BuildVertices
    \/ BuildAttribLayout
    \/ WriteHeader
    \/ WriteAttributes
    \/ WriteVertexBuffer
    \/ WriteVertexBufferRaise
    \/ WriteIndexBuffer
    \/ WriteRaise
    \/ Return

Spec == Init /\ [][Next]_vars

TypeOK ==
    /\ pc \in {"open", "uv_layer", "triangulate", "map_uvs", "map_normals",
               "find_perms", "tri_inds", "vertices", "layout", "header",
               "attribs", "vbuf", "ibuf", "return", "done", "failed"}
    /\ error \in {"none", "OSError", "AttributeError", "struct.error"}
    /\ result \in {"none", "FINISHED"}

\* ------------------------------------------------------------------------
\* material_bake.py: node trees
\* ------------------------------------------------------------------------
\* A node is [id, type]; a socket is <<node id, name>>; a link is
\* [id, from, to]; a tree is [nodes, links, defaults, active] where defaults
\* maps the input sockets of the tree to their default values.

\* the inputs of a node of a type that the bakers read or write
NodeInputs(node_type) ==
    CASE node_type = "ShaderNodeBsdfPrincipled" -> {"Base Color", "Metallic", "Roughness"}
      [] node_type = "ShaderNodeCombineRGB" -> {"R", "G", "B"}
      [] OTHER -> {}

\* dict[key] = value
DictSet(d, key, value) ==
    [k \in DOMAIN d \cup {key} |-> IF k = key THEN value ELSE d[k]]

EmptyDict == [k \in {} |-> 0]

\* node_tree.nodes.new(node_type): the node gets the identity id
NodesNew(tree, id, node_type) ==
    [nodes |-> tree.nodes \cup {[id |-> id, type |-> node_type]},
     links |-> tree.links,
     defaults |-> [s \in DOMAIN tree.defaults \cup {<<id, n>> : n \in NodeInputs(node_type)} |->
                     IF s \in DOMAIN tree.defaults THEN tree.defaults[s] ELSE 0],
     active |-> tree.active]

\* node_tree.nodes.remove(node): the node goes with its sockets and links
NodesRemove(tree, id) ==
    [nodes |-> {n \in tree.nodes : n.id # id},
     links |-> {l \in tree.links : l.from[1] # id /\ l.to[1] # id},
     defaults |-> [s \in {x \in DOMAIN tree.defaults : x[1] # id} |-> tree.defaults[s]],
     active |-> IF tree.active = id THEN 0 ELSE tree.active]

\* node_tree.links.new(from, to): an input socket holds one link, the link
\* it had is removed
LinksNew(tree, id, from, to) ==
    [tree EXCEPT !.links = {l \in @ : l.to # to} \cup {[id |-> id, from |-> from, to |-> to]}]

\* whether node_tree.links.remove(link) finds the link in the tree
LinksHas(tree, link) == \E l \in tree.links : l.id = link.id

LinksRemove(tree, link) == [tree EXCEPT !.links = {l \in @ : l.id # link.id}]

\* socket.is_linked and socket.links[0] of an input socket
IsLinked(tree, socket) == \E l \in tree.links : l.to = socket
SocketLink(tree, socket) == CHOOSE l \in tree.links : l.to = socket

\* the nodes with "Bsdf" in their bl_idname, in the order of the tree
BsdfNodes(tree) == {n.id : n \in {x \in tree.nodes : x.type = "ShaderNodeBsdfPrincipled"}}

\* the tree without the identities of its links: what a user sees of it
Shape(tree) ==
    [nodes |-> tree.nodes,
     links |-> {<<l.from, l.to>> : l \in tree.links},
     defaults |-> tree.defaults]

\* ------------------------------------------------------------------------
\* material_bake.py: VKMaterialImageBaker
\* ------------------------------------------------------------------------
\* The tracked edits work on st = [trees, changes, current, next_id, error]:
\* the node trees, the baker's node_tree_changes (the NodeTreeChanges in
\* the order they were made), the tree of current_tree_changes (0 for
\* None), the next identity and the exception raised so far.

NodeTreeChanges(node_tree) ==
    [node_tree |-> node_tree, added_nodes |-> << >>, added_links |-> << >>,
     removed_links |-> << >>, changed_defaults |-> EmptyDict]

\* the position of the changes of a tree in node_tree_changes, 0 if none
ChangesAt(changes, node_tree) ==
    IF \E i \in 1 .. Len(changes) : changes[i].node_tree = node_tree
    THEN CHOOSE i \in 1 .. Len(changes) : changes[i].node_tree = node_tree
    ELSE 0

\* __on_edit_node_tree
on_edit_node_tree(st, node_tree) ==
    IF st.current = 0 \/ st.current # node_tree
    THEN IF ChangesAt(st.changes, node_tree) # 0
         THEN [st EXCEPT !.current = node_tree]
         ELSE [st EXCEPT !.current = node_tree,
                         !.changes = Append(@, NodeTreeChanges(node_tree))]
    ELSE st

\* add_node; the node it returns has the identity st.next_id
add_node(st, node_tree, node_type) ==
    LET s == on_edit_node_tree(st, node_tree)
        c == ChangesAt(s.changes, node_tree)
    IN  [s EXCEPT !.trees[node_tree] = NodesNew(@, s.next_id, node_type),
                  !.changes[c].added_nodes = Append(@, s.next_id),
                  !.next_id = @ + 1]

\* add_link(node_tree, input, output)
add_link(st, node_tree, input, output) ==
    LET s == on_edit_node_tree(st, node_tree)
        c == ChangesAt(s.changes, node_tree)
    IN  [s EXCEPT !.trees[node_tree] = LinksNew(@, s.next_id, input, output),
                  !.changes[c].added_links =
                      Append(@, [id |-> s.next_id, from |-> input, to |-> output]),
                  !.next_id = @ + 1]

\* remove_link
remove_link(st, node_tree, link) ==
    LET s == on_edit_node_tree(st, node_tree)
        c == ChangesAt(s.changes, node_tree)
    IN  [s EXCEPT !.changes[c].removed_links =
                      Append(@, [from |-> link.from, to |-> link.to]),
                  !.trees[node_tree] = LinksRemove(@, link)]

\* set_default: `changed_defaults[socket] = socket.default_value` stores the
\* value the socket has now, whether or not the socket has an entry
set_default(st, node_tree, socket, value) ==
    LET s == on_edit_node_tree(st, node_tree)
        c == ChangesAt(s.changes, node_tree)
    IN  [s EXCEPT !.changes[c].changed_defaults =
                      DictSet(@, socket, s.trees[node_tree].defaults[socket]),
                  !.trees[node_tree].defaults[socket] = value]

\* ------------------------------------------------------------------------

\* material_bake.py: prepare_node_tree and __restore_node_tree
\* ------------------------------------------------------------------------
\* VKDiffuseImageBaker.prepare_node_tree, for one BSDF node (every BSDF
\* node of the model is a Principled BSDF, which has the three inputs)
PrepareDiffuse(st, node_tree, bsdf_node) ==
    LET metallic_input == <<bsdf_node, "Metallic">>
        s1 == IF IsLinked(st.trees[node_tree], metallic_input)
              THEN remove_link(st, node_tree, SocketLink(st.trees[node_tree], metallic_input))
              ELSE st
    IN  set_default(s1, node_tree, metallic_input, 0)

\* VKMetallicRoughnessImageBaker.prepare_node_tree, for one BSDF node
PrepareMetallicRoughness(st, node_tree, bsdf_node) ==
    LET metallic_input == <<bsdf_node, "Metallic">>
        roughness_input == <<bsdf_node, "Roughness">>
        color_input == <<bsdf_node, "Base Color">>
        combine_node == st.next_id
        combine_metallic_input == <<combine_node, "B">>
        combine_roughness_input == <<combine_node, "G">>
        s1 == add_node(st, node_tree, "ShaderNodeCombineRGB")
        s2 == IF IsLinked(s1.trees[node_tree], metallic_input)
              THEN LET old_link == SocketLink(s1.trees[node_tree], metallic_input)
                   IN  remove_link(add_link(s1, node_tree, old_link.from,
                                            combine_metallic_input),
                                   node_tree, old_link)
              ELSE [s1 EXCEPT !.trees[node_tree].defaults[combine_metallic_input] =
                                  s1.trees[node_tree].defaults[metallic_input]]
        s3 == set_default(s2, node_tree, metallic_input, 0)
        s4 == IF IsLinked(s3.trees[node_tree], roughness_input)
              THEN add_link(s3, node_tree,
                            SocketLink(s3.trees[node_tree], roughness_input).from,
                            combine_roughness_input)
              ELSE [s3 EXCEPT !.trees[node_tree].defaults[combine_roughness_input] =
                                  s3.trees[node_tree].defaults[roughness_input]]
        s5 == IF IsLinked(s4.trees[node_tree], color_input)
              THEN remove_link(s4, node_tree, SocketLink(s4.trees[node_tree], color_input))
              ELSE s4
    IN  add_link(s5, node_tree, <<combine_node, "Image">>, color_input)

\* the loop `for bsdf_node in bsdf_nodes` over the BSDF nodes not yet visited
RECURSIVE PrepareNodes(_, _, _, _)
PrepareNodes(type, st, node_tree, bsdf_nodes) ==
    IF bsdf_nodes = {} THEN st
    ELSE LET bsdf_node == CHOOSE n \in bsdf_nodes : \A x \in bsdf_nodes : n <= x
             s == IF type = "diffuse" THEN PrepareDiffuse(st, node_tree, bsdf_node)
                  ELSE PrepareMetallicRoughness(st, node_tree, bsdf_node)
         IN  PrepareNodes(type, s, node_tree, bsdf_nodes \ {bsdf_node})

\* prepare_node_tree of the baker of a type; the base class does nothing
prepare_node_tree(type, st, node_tree) ==
    IF type \in {"diffuse", "metallic_roughness"}
    THEN PrepareNodes(type, st, node_tree, BsdfNodes(st.trees[node_tree]))
    ELSE st

\* the material slots of the selected objects, in the order of the two
\* nested loops over context.selected_objects and object.material_slots
Slots(objects) == Concat(objects, Len(objects))

\* the first n iterations of these loops in VKMaterialImageBaker.execute
RECURSIVE PrepareLoop(_, _, _, _)
PrepareLoop(type, st, slots, n) ==
    IF n = 0 THEN st
    ELSE prepare_node_tree(type, PrepareLoop(type, st, slots, n - 1), slots[n])

\* `for link in added_links: node_tree.links.remove(link)`, first n links;
\* gives <<tree, error>>: links.remove raises RuntimeError for a link that
\* is not in the tree
RECURSIVE RemoveAddedLinks(_, _, _)
RemoveAddedLinks(tree, added_links, n) ==
    IF n = 0 THEN <<tree, "none">>
    ELSE LET r == RemoveAddedLinks(tree, added_links, n - 1)
         IN  IF r[2] # "none" THEN r
             ELSE IF LinksHas(r[1], added_links[n])
             THEN <<LinksRemove(r[1], added_links[n]), "none">>
             ELSE <<r[1], "RuntimeError">>

\* `for link_info in removed_links: node_tree.links.new(...)`, first n;
\* the links get the identities id, id + 1, ...
RECURSIVE RestoreRemovedLinks(_, _, _, _)
RestoreRemovedLinks(tree, removed_links, id, n) ==
    IF n = 0 THEN tree
    ELSE LinksNew(RestoreRemovedLinks(tree, removed_links, id, n - 1),
                  id + n - 1, removed_links[n].from, removed_links[n].to)

\* `for node in added_nodes: node_tree.nodes.remove(node)`, first n nodes
RECURSIVE RemoveAddedNodes(_, _, _)
RemoveAddedNodes(tree, nodes, n) ==
    IF n = 0 THEN tree
    ELSE NodesRemove(RemoveAddedNodes(tree, nodes, n - 1), nodes[n])

\* __restore_node_tree
restore_node_tree(st, node_tree) ==
    LET s == on_edit_node_tree(st, node_tree)
        ch == s.changes[ChangesAt(s.changes, node_tree)]
        tree == s.trees[node_tree]
        t1 == [tree EXCEPT !.defaults =
                  [k \in DOMAIN @ |-> IF k \in DOMAIN ch.changed_defaults
                                      THEN ch.changed_defaults[k] ELSE @[k]]]
        r == RemoveAddedLinks(t1, ch.added_links, Len(ch.added_links))
        t3 == RestoreRemovedLinks(r[1], ch.removed_links, s.next_id, Len(ch.removed_links))
        t4 == RemoveAddedNodes(t3, ch.added_nodes, Len(ch.added_nodes))
    IN  IF r[2] # "none"
        THEN [s EXCEPT !.trees[node_tree] = r[1], !.error = r[2]]
        ELSE [s EXCEPT !.trees[node_tree] = t4,
                       !.next_id = @ + Len(ch.removed_links)]

\* `for node_tree in self.node_tree_changes.keys()`, first n trees; an
\* exception ends the loop
RECURSIVE RestoreLoop(_, _)
RestoreLoop(st, n) ==
    IF n = 0 THEN st
    ELSE LET s == RestoreLoop(st, n - 1)
         IN  IF s.error # "none" THEN s
             ELSE restore_node_tree(s, s.changes[n].node_tree)

\* ------------------------------------------------------------------------

\* material_bake.py: VKMB_OP_bake_material.execute
\* ------------------------------------------------------------------------
\* the materials of the scene; every material has a Principled BSDF (node
\* 1) and an image texture (node 2) that feeds the inputs that are linked
Materials == {1, 2}

MkTree(metallic_linked, metallic_default, roughness_linked, color_linked) ==
    [nodes |-> {[id |-> 1, type |-> "ShaderNodeBsdfPrincipled"],
                [id |-> 2, type |-> "ShaderNodeTexImage"]},
     links |-> (IF metallic_linked
                THEN {[id |-> 3, from |-> <<2, "Alpha">>, to |-> <<1, "Metallic">>]}
                ELSE {})
               \cup (IF roughness_linked
                     THEN {[id |-> 4, from |-> <<2, "Alpha">>, to |-> <<1, "Roughness">>]}
                     ELSE {})
               \cup (IF color_linked
                     THEN {[id |-> 5, from |-> <<2, "Color">>, to |-> <<1, "Base Color">>]}
                     ELSE {}),
     defaults |-> [s \in {<<1, "Base Color">>, <<1, "Metallic">>, <<1, "Roughness">>} |->
                     IF s[2] = "Metallic" THEN metallic_default ELSE 5],
     active |-> 1]

\* the identities 1 .. 5 are taken by the nodes and links of MkTree
FirstId == 6

\* the default values a Metallic input may have: 0.0 and 0.5
MetallicDefaults == {0, 5}

\* the selections: one object with one slot, with two slots of one
\* material, two objects of one material, and two materials in one or in
\* two objects
Selections ==
    { << <<1>> >>, << <<1, 1>> >>, << <<1>>, <<1>> >>,
      << <<1, 2>> >>, << <<1>>, <<2>> >>, << <<1, 2>>, <<2>> >> }

\* the bake properties; the normal and the emission baker, which edit no
\* tree, are switched together
IsProps(p) ==
    \E d, n, mr, cm \in BOOLEAN :
        p = [bake_diffuse |-> d, bake_normals |-> n, bake_emission |-> n,
             bake_metallic_roughness |-> mr, create_material |-> cm]

\* render engine and samples of the scene
Scenes == {<<"BLENDER_EEVEE", 64>>, <<"CYCLES", 128>>}

\* the list `bakers`
Bakers == <<"diffuse", "normals", "emission", "metallic_roughness">>

\* baker.enabled
Enabled(type) ==
    CASE type = "diffuse" -> props.bake_diffuse
      [] type = "normals" -> props.bake_normals
      [] type = "emission" -> props.bake_emission
      [] type = "metallic_roughness" -> props.bake_metallic_roughness

\* export_mesh is not running
ExportIdle ==
    /\ mesh = << >> /\ export_skinning_data = FALSE /\ armature = NoArmature
    /\ pc = "idle" /\ error = "none" /\ result = "none" /\ file = NoFile
    /\ uv_layer = NoLayer
    /\ vertex_uvs = << >> /\ loop_uv_inds = << >>
    /\ vertex_normals = << >> /\ loop_normal_inds = << >>
    /\ vertex_perms = << >> /\ loop_inds = << >> /\ num_vertices = 0
    /\ tri_inds = << >>
    /\ positions = << >> /\ normals = << >> /\ uvs = << >>
    /\ joint_weights = << >> /\ joint_indices = << >>
    /\ attrib_infos = << >> /\ attrib_sizes = << >> /\ attrib_offsets = << >>
    /\ vertex_size = 0

export == <<mesh, export_skinning_data, armature, pc, error, result, file, uv_layer,
            vertex_uvs, loop_uv_inds, vertex_normals, loop_normal_inds,
            vertex_perms, loop_inds, num_vertices, tri_inds,
            positions, normals, uvs, joint_weights, joint_indices,
            attrib_infos, attrib_sizes, attrib_offsets, vertex_size>>

BakeInit ==
    /\ ExportIdle
    /\ bpc = "add_nodes" /\ berror = "none"
    /\ selection \in Selections
    /\ IsProps(props)
    /\ \E scene \in Scenes : engine = scene[1] /\ samples = scene[2]
    /\ old_engine = "none" /\ old_samples = 0
    /\ \E ml, rl, cl \in BOOLEAN : \E md \in MetallicDefaults :
          trees = [m \in Materials |-> MkTree(ml, md, rl, cl)]
    /\ before = [trees |-> trees, engine |-> engine, samples |-> samples]
    /\ trees_prebake = << >>
    /\ added_nodes = EmptyDict
    /\ baker_index = 0
    /\ node_tree_changes = << >> /\ current_tree_changes = 0
    /\ next_id = FirstId
    /\ object_images = << >> /\ bake_materials = << >>

\* an exception leaves execute
BakeRaise(e) ==
    /\ bpc' = "failed"
    /\ berror' = e

\* the first n iterations of the loops that add an Image Texture node per
\* slot; acc = <<trees, added_nodes, next_id>>
RECURSIVE AddImageNodes(_, _, _)
AddImageNodes(acc, slots, n) ==
    IF n = 0 THEN acc
    ELSE LET a == AddImageNodes(acc, slots, n - 1)
             tree == slots[n]
             node == a[3]
         IN  <<[a[1] EXCEPT ![tree] =
                   [NodesNew(@, node, "ShaderNodeTexImage") EXCEPT !.active = node]],
               DictSet(a[2], tree, <<node>>),
               a[3] + 1>>

OpAddImageNodes ==
    /\ bpc = "add_nodes"
    /\ LET a == AddImageNodes(<<trees, added_nodes, next_id>>, Slots(selection),
                              Len(Slots(selection)))
       IN  trees' = a[1] /\ added_nodes' = a[2] /\ next_id' = a[3]
    /\ object_images' = [o \in 1 .. Len(selection) |-> {}]
    /\ bpc' = "setup"
    /\ UNCHANGED <<export, berror, selection, props, engine, samples, old_engine,
                   old_samples, before, trees_prebake, baker_index, node_tree_changes,
                   current_tree_changes, bake_materials>>

OpSetupScene ==
    /\ bpc = "setup"
    /\ old_engine' = engine
    /\ old_samples' = samples
    /\ engine' = "CYCLES"
    /\ samples' = 1
    /\ baker_index' = 1
    /\ bpc' = "bakers"
    /\ UNCHANGED <<export, berror, selection, props, trees, before, trees_prebake,
                   added_nodes, node_tree_changes, current_tree_changes, next_id,
                   object_images, bake_materials>>

\* baker.execute of a baker that is not enabled
BakerDisabled ==
    /\ bpc = "bakers"
    /\ baker_index <= Len(Bakers)
    /\ ~Enabled(Bakers[baker_index])
    /\ baker_index' = baker_index + 1
    /\ UNCHANGED <<export, bpc, berror, selection, props, engine, samples, old_engine,
                   old_samples, trees, before, trees_prebake, added_nodes,
                   node_tree_changes, current_tree_changes, next_id, object_images,
                   bake_materials>>

\* baker.execute up to the bake: the prepare loop and the images
BakerPrepare ==
    /\ bpc = "bakers"
    /\ baker_index <= Len(Bakers)
    /\ Enabled(Bakers[baker_index])
    /\ LET st == PrepareLoop(Bakers[baker_index],
                             [trees |-> trees, changes |-> << >>, current |-> 0,
                              next_id |-> next_id, error |-> "none"],
                             Slots(selection), Len(Slots(selection)))
       IN  /\ trees' = st.trees
           /\ node_tree_changes' = st.changes
           /\ current_tree_changes' = st.current
           /\ next_id' = st.next_id
    /\ trees_prebake' = trees
    /\ object_images' = [o \in 1 .. Len(selection) |->
                            object_images[o] \cup {Bakers[baker_index]}]
    /\ bpc' = "bake"
    /\ UNCHANGED <<export, berror, selection, props, engine, samples, old_engine,
                   old_samples, before, added_nodes, baker_index, bake_materials>>

\* bpy.ops.object.bake and image.pack()
BakerBake ==
    /\ bpc = "bake"
    /\ bpc' = "restore"
    /\ UNCHANGED <<export, berror, selection, props, engine, samples, old_engine,
                   old_samples, trees, before, trees_prebake, added_nodes, baker_index,
                   node_tree_changes, current_tree_changes, next_id, object_images,
                   bake_materials>>

\* bpy.ops.object.bake reports an error
BakerBakeRaise ==
    /\ bpc = "bake"
    /\ BakeRaise("RuntimeError")
    /\ UNCHANGED <<export, selection, props, engine, samples, old_engine,
                   old_samples, trees, before, trees_prebake, added_nodes, baker_index,
                   node_tree_changes, current_tree_changes, next_id, object_images,
                   bake_materials>>

\* the state the restore loop of the current baker ends in
Restored ==
    RestoreLoop([trees |-> trees, changes |-> node_tree_changes,
                 current |-> current_tree_changes, next_id |-> next_id,
                 error |-> "none"],
                Len(node_tree_changes))

\* the restore loop; baker.execute returns
BakerRestore ==
    /\ bpc = "restore"
    /\ Restored.error = "none"
    /\ trees' = Restored.trees
    /\ current_tree_changes' = Restored.current
    /\ next_id' = Restored.next_id
    /\ baker_index' = baker_index + 1
    /\ bpc' = "bakers"
    /\ UNCHANGED <<export, berror, selection, props, engine, samples, old_engine,
                   old_samples, before, trees_prebake, added_nodes, node_tree_changes,
                   object_images, bake_materials>>

\* the restore loop raises
BakerRestoreRaise ==
    /\ bpc = "restore"
    /\ Restored.error # "none"
    /\ trees' = Restored.trees
    /\ current_tree_changes' = Restored.current
    /\ next_id' = Restored.next_id
    /\ BakeRaise(Restored.error)
    /\ UNCHANGED <<export, selection, props, engine, samples, old_engine,
                   old_samples, before, trees_prebake, added_nodes, baker_index,
                   node_tree_changes, object_images, bake_materials>>

\* the materials created from the bakes: per object the types of its images
OpCreateMaterials ==
    /\ bpc = "bakers"
    /\ baker_index > Len(Bakers)
    /\ bake_materials' = IF props.create_material
                         THEN [o \in 1 .. Len(selection) |-> object_images[o]]
                         ELSE << >>
    /\ bpc' = "scene"
    /\ UNCHANGED <<export, berror, selection, props, engine, samples, old_engine,
                   old_samples, trees, before, trees_prebake, added_nodes, baker_index,
                   node_tree_changes, current_tree_changes, next_id, object_images>>

OpRestoreScene ==
    /\ bpc = "scene"
    /\ samples' = old_samples
    /\ engine' = old_engine
    /\ bpc' = "cleanup"
    /\ UNCHANGED <<export, berror, selection, props, old_engine, old_samples, trees,
                   before, trees_prebake, added_nodes, baker_index, node_tree_changes,
                   current_tree_changes, next_id, object_images, bake_materials>>

\* `for tree, nodes in added_nodes.items(): for node in nodes: ...`
OpCleanup ==
    /\ bpc = "cleanup"
    /\ trees' = [m \in DOMAIN trees |->
                    IF m \in DOMAIN added_nodes
                    THEN RemoveAddedNodes(trees[m], added_nodes[m], Len(added_nodes[m]))
                    ELSE trees[m]]
    /\ bpc' = "return"
    /\ UNCHANGED <<export, berror, selection, props, engine, samples, old_engine,
                   old_samples, before, trees_prebake, added_nodes, baker_index,
                   node_tree_changes, current_tree_changes, next_id, object_images,
                   bake_materials>>

\* return {'FINISHED'}
OpReturn ==
    /\ bpc = "return"
    /\ bpc' = "done"
    /\ UNCHANGED <<export, berror, selection, props, engine, samples, old_engine,
                   old_samples, trees, before, trees_prebake, added_nodes, baker_index,
                   node_tree_changes, current_tree_changes, next_id, object_images,
                   bake_materials>>

BakeNext ==
    \/ OpAddImageNodes
    \/ OpSetupScene
    \/ BakerDisabled
    \/ BakerPrepare
    \/ BakerBake
    \/ BakerBakeRaise
    \/ BakerRestore
    \/ BakerRestoreRaise
    \/ OpCreateMaterials
    \/ OpRestoreScene
    \/ OpCleanup
    \/ OpReturn

BakeSpec == BakeInit /\ [][BakeNext]_vars

\* ------------------------------------------------------------------------

\* The container as a reader finds it in the file
\* ------------------------------------------------------------------------
\* export_mesh has written the whole container
Complete == pc \in {"return", "done"}

\* map_vertex_uvs and map_vertex_normals have just returned
AfterClustering == pc = "find_perms"

\* find_vertex_permutations has just returned
AfterPermutations == pc = "tri_inds"

\* the bytes of the writes lo .. hi, and of the first n writes
RECURSIVE BytesIn(_, _, _)
BytesIn(packs, lo, hi) ==
    IF lo > hi THEN 0
    ELSE IF lo = hi THEN CalcSize(packs[lo].fmt)
    ELSE BytesIn(packs, lo, (lo + hi) \div 2) + BytesIn(packs, (lo + hi) \div 2 + 1, hi)

Bytes(packs, n) == BytesIn(packs, 1, n)

FileHeader == file.written[1].vals
attributeCount == FileHeader[2]
vertexSize == FileHeader[3]
vertexCount == FileHeader[4]
indexCount == FileHeader[5]

\* the k-th entry of the attribute table, k in 1 .. attributeCount
AttribName(k) == file.written[2 * k].vals[1]
AttribSize(k) == file.written[2 * k + 1].vals[1]
AttribOffset(k) == file.written[2 * k + 1].vals[2]

TableEnd == 1 + 2 * attributeCount

\* the writes between the attribute table and the index buffer
VertexBuffer == SubSeq(file.written, TableEnd + 1, Len(file.written) - 1)
IndexBuffer == file.written[Len(file.written)]

\* attribute a (1-based, in table order) of output vertex i (0-based)
VertexAttr(i, a) == VertexBuffer[i * attributeCount + a].vals

\* the inverse of the axis remap (x, y, z) -> (-x, z, y)
InverseRemap(p) == <<0 - p[1], p[3], p[2]>>

\* ------------------------------------------------------------------------
\* Properties
\* ------------------------------------------------------------------------

\* C1: with skinning enabled, the 4 jointWeights of every output vertex of
\* the written vertex buffer are all 0 or sum to 1.  (Violated: the division
\* by the sum is lost, the weights are written as they were selected.)
SkinWeightsNormalized ==
    (Complete /\ export_skinning_data) =>
        \A i \in Range0(vertexCount) :
            LET w == VertexAttr(i, 4)
            IN  \/ \A k \in 1 .. 4 : w[k] = 0
                \/ SumSeq(w, 4) = One

\* the source normal of the k-th of the corners NormalCorners(mesh), and
\* its loop
CornerNormal(corners, k) == corners[k][1]
CornerLoop(corners, k) == corners[k][2]

\* C2: the inverse remap applied to every emitted position gives the
\* position of the source vertex, and applied to every emitted normal gives
\* the source normal of the corner that founded the normal cluster.
\* (Violated: the normals are written without the remap.)
RemapAppliedOnce ==
    Complete =>
        /\ \A l \in Range0(Len(mesh.loops)) :
              InverseRemap(VertexAttr(At(loop_inds, l), 1))
                  = At(mesh.vertices, At(mesh.loops, l).vertex_index).co
        /\ LET corners == NormalCorners(mesh)
           IN  \A k \in 1 .. Len(corners) :
                  LET l == CornerLoop(corners, k).index
                      v == CornerLoop(corners, k).vertex_index
                      cluster == At(At(vertex_normals, v), At(loop_normal_inds, l))
                  IN  cluster[2][1] = l =>
                          InverseRemap(VertexAttr(At(loop_inds, l), 2))
                              = CornerNormal(corners, k)

\* C3: for a mesh without a UV layer export_mesh completes unless the file
\* system fails, the texCoord attribute is absent or all zero, and the
\* header's attributeCount is the number of table entries written.
\* (Violated: map_vertex_uvs raises AttributeError on the missing layer.)
NoUVLayerExports ==
    mesh.uv_layers = << >> =>
        /\ pc = "failed" => error = "OSError"
        /\ pc = "done" =>
              /\ Len(file.written) = 2 + 2 * attributeCount + attributeCount * vertexCount
              /\ \A k \in 1 .. attributeCount :
                    AttribName(k) = "texCoord" =>
                        \A i \in Range0(vertexCount) : VertexAttr(i, k) = <<0, 0>>

\* C4: a call that fails leaves no file at the target path, and a call
\* that returns leaves a complete container.  (Violated: the file is
\* created before anything is computed.)
NoPartialFile ==
    /\ pc = "failed" => ~file.exists
    /\ pc = "done" =>
          /\ file.exists
          /\ Len(file.written) = 2 + 2 * attributeCount + attributeCount * vertexCount

\* C5: in a written container the index buffer length is a multiple of 3
\* and every index is less than the vertexCount of the header.
IndexValidity ==
    Complete =>
        /\ Len(IndexBuffer.vals) % 3 = 0
        /\ \A k \in 1 .. Len(IndexBuffer.vals) :
              IndexBuffer.vals[k] >= 0 /\ IndexBuffer.vals[k] < vertexCount

IndexValidityWitness ==
    /\ pc = "done"
    /\ Len(IndexBuffer.vals) >= 6
    /\ vertexCount > Len(mesh.vertices)
    /\ \E k \in 1 .. Len(IndexBuffer.vals) : IndexBuffer.vals[k] = vertexCount - 1

\* C6: in a written container the header's vertexSize is the sum of the
\* sizes of the attribute table, the vertex buffer has
\* vertexCount * vertexSize bytes and the index buffer indexCount * 4.
HeaderConsistency ==
    Complete =>
        /\ vertexSize = SumSeq([k \in 1 .. attributeCount |-> AttribSize(k)],
                               attributeCount)
        /\ Bytes(VertexBuffer, Len(VertexBuffer)) = vertexCount * vertexSize
        /\ Bytes(<<IndexBuffer>>, 1) = indexCount * 4

HeaderConsistencyWitness ==
    /\ pc = "done"
    /\ export_skinning_data
    /\ vertexCount > 0
    /\ indexCount > 0

\* the number of corners that reference vertex v
CornerCount(v) ==
    Cardinality({l \in Range0(Len(mesh.loops)) : At(mesh.loops, l).vertex_index = v})

\* C7 as claimed: every source vertex, also one that no corner references,
\* has at least 1 permutation and at most as many as corners reference it.
PermutationBoundAllVertices ==
    AfterPermutations =>
        \A v \in Range0(Len(mesh.vertices)) :
            /\ Len(At(vertex_perms, v)) >= 1
            /\ Len(At(vertex_perms, v)) <= CornerCount(v)

\* C7: every source vertex has at most as many permutations as corners
\* reference it, and at least 1 if a corner references it; a vertex that
\* no corner references has none.
PermutationBound ==
    AfterPermutations =>
        \A v \in Range0(Len(mesh.vertices)) :
            /\ Len(At(vertex_perms, v)) <= CornerCount(v)
            /\ CornerCount(v) >= 1 => Len(At(vertex_perms, v)) >= 1

PermutationBoundWitness ==
    /\ AfterPermutations
    /\ \E v \in Range0(Len(mesh.vertices)) : CornerCount(v) = 0
    /\ \E v \in Range0(Len(mesh.vertices)) :
          /\ Len(At(vertex_perms, v)) >= 2
          /\ Len(At(vertex_perms, v)) < CornerCount(v)

\* the representatives of the clusters of a list of per-vertex cluster
\* lists are pairwise apart by d with Far(d)
Separated(lists, Far(_)) ==
    \A v \in 1 .. Len(lists) :
        \A i, j \in 1 .. Len(lists[v]) :
            i < j => Far(LenSq(Sub(lists[v][i][1], lists[v][j][1])))

MoreThanTolerance(dd) == dd > Tolerance * Tolerance
AtLeastTolerance(dd) == dd >= Tolerance * Tolerance

\* C8 as claimed: two distinct clusters of a vertex, UV or normal, have
\* representatives more than the tolerance apart.
ClusterSeparationStrict ==
    AfterClustering =>
        /\ Separated(vertex_uvs, MoreThanTolerance)
        /\ Separated(vertex_normals, MoreThanTolerance)

\* C8: two distinct clusters of a vertex, UV or normal, have
\* representatives at least the tolerance apart; a value exactly the
\* tolerance away from every representative founds a new cluster.
ClusterSeparation ==
    AfterClustering =>
        /\ Separated(vertex_uvs, AtLeastTolerance)
        /\ Separated(vertex_normals, AtLeastTolerance)

ClusterSeparationWitness ==
    /\ AfterClustering
    /\ \E v \in 1 .. Len(vertex_uvs) :
          /\ Len(vertex_uvs[v]) >= 2
          /\ LenSq(Sub(vertex_uvs[v][1][1], vertex_uvs[v][2][1])) = Tolerance * Tolerance
    /\ \E v \in 1 .. Len(vertex_normals) :
          /\ Len(vertex_normals[v]) >= 2
          /\ LenSq(Sub(vertex_normals[v][1][1], vertex_normals[v][2][1]))
                = Tolerance * Tolerance

\* the (vertex, uv cluster, normal cluster) triple of corner l
CornerTriple(l) ==
    <<At(mesh.loops, l).vertex_index, At(loop_uv_inds, l), At(loop_normal_inds, l)>>

\* the first corner with the triple of corner l
FirstCorner(l) ==
    CHOOSE f \in 0 .. l :
        /\ CornerTriple(f) = CornerTriple(l)
        /\ \A g \in 0 .. (f - 1) : CornerTriple(g) # CornerTriple(l)

\* the positions (v, k) of the permutations of all vertices
PermPositions ==
    {vk \in Range0(Len(mesh.vertices)) \X (1 .. Len(mesh.loops)) :
        vk[2] <= Len(At(vertex_perms, vk[1]))}

PermAt(vk) == At(vertex_perms, vk[1])[vk[2]]

\* C9: the output indices are exactly 0 .. c_index - 1, each owned by one
\* (vertex, uv cluster, normal cluster) triple, no vertex holds a pair
\* twice, c_index is the number of distinct triples of the corners and at
\* most the number of corners, and a corner's index is the number of
\* distinct triples seen before the first corner with its triple.
PermutationIndices ==
    AfterPermutations =>
        /\ {PermAt(vk)[1] : vk \in PermPositions} = Range0(num_vertices)
        /\ \A a, b \in PermPositions : a # b => PermAt(a)[1] # PermAt(b)[1]
        /\ \A a, b \in PermPositions :
              (a # b /\ a[1] = b[1]) =>
                  <<PermAt(a)[2], PermAt(a)[3]>> # <<PermAt(b)[2], PermAt(b)[3]>>
        /\ num_vertices = Cardinality({CornerTriple(l) : l \in Range0(Len(mesh.loops))})
        /\ num_vertices <= Len(mesh.loops)
        /\ \A l \in Range0(Len(mesh.loops)) :
              /\ At(loop_inds, l)
                    = Cardinality({CornerTriple(g) : g \in 0 .. (FirstCorner(l) - 1)})
              /\ \E vk \in PermPositions :
                    /\ PermAt(vk) = <<At(loop_inds, l), CornerTriple(l)[2], CornerTriple(l)[3]>>
                    /\ vk[1] = CornerTriple(l)[1]

PermutationIndicesWitness ==
    /\ AfterPermutations
    /\ num_vertices >= 5
    /\ num_vertices < Len(mesh.loops)
    /\ \E v \in Range0(Len(mesh.vertices)) :
          \E i, j \in 1 .. Len(At(vertex_perms, v)) :
              /\ i # j
              /\ At(vertex_perms, v)[i][2] = At(vertex_perms, v)[j][2]
              /\ At(vertex_perms, v)[i][3] # At(vertex_perms, v)[j][3]

\* the UV of corner l in the UV layer
CornerUV(l) == At(mesh.uv_layers[1].data, l).uv

\* corner l with value c is a member of exactly one cluster of all the
\* lists, the one at position ind of its own vertex v, which is the first
\* of that vertex whose representative is within the tolerance of c
FirstMatch(lists, v, l, c, ind) ==
    /\ \A w \in Range0(Len(lists)) : \A i \in Range0(Len(At(lists, w))) :
          (\E k \in 1 .. Len(At(At(lists, w), i)[2]) : At(At(lists, w), i)[2][k] = l)
              <=> (w = v /\ i = ind)
    /\ Cardinality({k \in 1 .. Len(At(At(lists, v), ind)[2]) :
                        At(At(lists, v), ind)[2][k] = l}) = 1
    /\ Within(c, At(At(lists, v), ind)[1])
    /\ \A i \in 0 .. (ind - 1) : ~Within(c, At(At(lists, v), i)[1])

\* C10: in both clusterers every corner is a member of exactly one cluster,
\* of its own vertex, at the position returned for the corner, and that is
\* the first cluster within the tolerance of the corner's value; the
\* representative of a cluster is the value of its first member, which no
\* earlier cluster of the vertex is within the tolerance of.
FirstMatchWins ==
    AfterClustering =>
        /\ \A l \in Range0(Len(mesh.loops)) :
              FirstMatch(vertex_uvs, At(mesh.loops, l).vertex_index, l,
                         CornerUV(l), At(loop_uv_inds, l))
        /\ LET corners == NormalCorners(mesh)
           IN  \A k \in 1 .. Len(corners) :
                  FirstMatch(vertex_normals, CornerLoop(corners, k).vertex_index,
                             CornerLoop(corners, k).index, CornerNormal(corners, k),
                             At(loop_normal_inds, CornerLoop(corners, k).index))
        /\ \A v \in 1 .. Len(vertex_uvs) : \A i \in 1 .. Len(vertex_uvs[v]) :
              vertex_uvs[v][i][1] = CornerUV(vertex_uvs[v][i][2][1])
        /\ LET corners == NormalCorners(mesh)
           IN  \A v \in 1 .. Len(vertex_normals) : \A i \in 1 .. Len(vertex_normals[v]) :
                  \E k \in 1 .. Len(corners) :
                      /\ CornerLoop(corners, k).index = vertex_normals[v][i][2][1]
                      /\ vertex_normals[v][i][1] = CornerNormal(corners, k)

\* a corner went to the first cluster within the tolerance although a
\* later cluster of its vertex is nearer, in both clusterers
FirstMatchWinsWitness ==
    /\ AfterClustering
    /\ \E l \in Range0(Len(mesh.loops)) :
          LET uv_list == At(vertex_uvs, At(mesh.loops, l).vertex_index)
          IN  \E j \in Range0(Len(uv_list)) :
                  /\ j > At(loop_uv_inds, l)
                  /\ LenSq(Sub(CornerUV(l), At(uv_list, j)[1]))
                        < LenSq(Sub(CornerUV(l), At(uv_list, At(loop_uv_inds, l))[1]))
    /\ LET corners == NormalCorners(mesh)
       IN  \E k \in 1 .. Len(corners) :
              LET normals_list == At(vertex_normals, CornerLoop(corners, k).vertex_index)
                  ind == At(loop_normal_inds, CornerLoop(corners, k).index)
              IN  \E j \in Range0(Len(normals_list)) :
                      /\ j > ind
                      /\ LenSq(Sub(CornerNormal(corners, k), At(normals_list, j)[1]))
                            < LenSq(Sub(CornerNormal(corners, k), At(normals_list, ind)[1]))

\* the loop over the vertices has just ended
AfterVertices == pc = "layout"

\* the smallest element of a non-empty set of integers
Least(S) == CHOOSE i \in S : \A j \in S : i <= j

\* the sum of the weights of the influences at the positions P
RECURSIVE WeightAt(_, _)
WeightAt(groups, P) ==
    IF P = {} THEN 0
    ELSE LET k == Least(P) IN groups[k].weight + WeightAt(groups, P \ {k})

\* the largest sum of weights that 4 of the influences have
TopFour(groups) ==
    Max({WeightAt(groups, P) : P \in {Q \in SUBSET (1 .. Len(groups)) : Cardinality(Q) = 4}})

\* C11: the skin slots of every source vertex follow from its influence
\* list: influence k <= 4 fills slot k - 1; every later influence replaces
\* the slot of lowest index whose weight is strictly less than its own, and
\* changes nothing when there is no such slot; the slots past the last
\* influence hold bone 0 and weight 0; the output vertices of the source
\* vertex carry these slots.
SkinSelection ==
    (AfterVertices /\ export_skinning_data) =>
        \A v \in 1 .. Len(mesh.vertices) :
            LET groups == mesh.vertices[v].groups
                n == Len(groups)
                S(k) == SlotLoop(groups, k)
            IN  /\ \A k \in 1 .. n :
                      LET prev == S(k - 1)
                          cur == S(k)
                          smaller == {i \in 0 .. 3 : At(prev[2], i) < groups[k].weight}
                          slot == IF k <= 4 THEN k - 1
                                  ELSE IF smaller = {} THEN 0 - 1
                                  ELSE Least(smaller)
                      IN  IF slot < 0
                          THEN cur[1] = prev[1] /\ cur[2] = prev[2]
                          ELSE /\ cur[1] = SetAt(prev[1], slot, groups[k].group)
                               /\ cur[2] = SetAt(prev[2], slot, groups[k].weight)
                /\ \A i \in 0 .. 3 :
                      i >= n => At(S(n)[1], i) = 0 /\ At(S(n)[2], i) = 0
                /\ \A p \in 1 .. Len(vertex_perms[v]) :
                      /\ At(joint_indices, vertex_perms[v][p][1]) = S(n)[1]
                      /\ At(joint_weights, vertex_perms[v][p][1]) = S(n)[2]

\* a vertex with more than 4 influences, one of which replaced a slot while
\* a later slot held a smaller weight still, and whose 4 slots do not hold
\* the 4 largest weights of the list
SkinSelectionWitness ==
    /\ AfterVertices /\ export_skinning_data
    /\ \E v \in 1 .. Len(mesh.vertices) :
          LET groups == mesh.vertices[v].groups
              n == Len(groups)
          IN  /\ n > 4
              /\ Len(vertex_perms[v]) > 0
              /\ \E k \in 5 .. n : \E i, j \in 0 .. 3 :
                    /\ i < j
                    /\ At(SlotLoop(groups, k - 1)[2], j) < At(SlotLoop(groups, k - 1)[2], i)
                    /\ At(SlotLoop(groups, k - 1)[2], i) < groups[k].weight
                    /\ At(SlotLoop(groups, k)[1], i) = groups[k].group
              /\ SumSeq(At(joint_weights, vertex_perms[v][1][1]), 4) < TopFour(groups)

\* the final bone index of a vertex group: the index in the bone list of
\* the armature of the bone that has the group's name, the group index when
\* there is no armature or no such bone
BoneIndex(g) ==
    IF armature = NoArmature THEN g
    ELSE IF \E b \in 1 .. Len(armature.bones) : armature.bones[b] = VertexGroupName(g)
    THEN (CHOOSE b \in 1 .. Len(armature.bones) : armature.bones[b] = VertexGroupName(g)) - 1
    ELSE g

\* C12: the joint index emitted for a filled skin slot is the index, in the
\* bone list of the attached armature, of the bone named as the vertex
\* group of the slot; it is the group index when no armature is attached
\* or no bone has the name.  (Violated: export_mesh never reads the
\* armature and emits the group index always.)
JointIndicesResolved ==
    (AfterVertices /\ export_skinning_data) =>
        \A v \in 1 .. Len(mesh.vertices) :
            LET groups == mesh.vertices[v].groups
                slots == SlotLoop(groups, Len(groups))
            IN  \A p \in 1 .. Len(vertex_perms[v]) : \A i \in 0 .. 3 :
                    i < slots[3] =>
                        At(At(joint_indices, vertex_perms[v][p][1]), i)
                            = BoneIndex(At(slots[1], i))

\* the attribute names of a container, in table order
TableNames ==
    IF export_skinning_data
    THEN <<"position", "normal", "texCoord", "jointWeights", "jointIndices">>
    ELSE <<"position", "normal", "texCoord">>

\* the list that export_mesh filled for the attribute of a name
SourceList(name) ==
    CASE name = "position" -> positions
      [] name = "normal" -> normals
      [] name = "texCoord" -> uvs
      [] name = "jointWeights" -> joint_weights
      [] name = "jointIndices" -> joint_indices

\* C13: the attribute table of a written container lists position, normal,
\* texCoord and, exactly when skinning was requested, jointWeights and
\* jointIndices after them, so attributeCount is 3 or 5; the offset of an
\* entry is the sum of the sizes of the entries before it; the record of
\* every output vertex holds the attributes in table order, each of the
\* size of its entry and with the value of its list.
AttributeOrder ==
    Complete =>
        /\ attributeCount = (IF export_skinning_data THEN 5 ELSE 3)
        /\ \A k \in 1 .. attributeCount :
              /\ AttribName(k) = TableNames[k]
              /\ AttribSize(k) = <<12, 12, 8, 16, 4>>[k]
              /\ AttribOffset(k) = SumSeq([j \in 1 .. k - 1 |-> AttribSize(j)], k - 1)
        /\ Len(VertexBuffer) = vertexCount * attributeCount
        /\ \A i \in Range0(vertexCount) : \A k \in 1 .. attributeCount :
              /\ CalcSize(VertexBuffer[i * attributeCount + k].fmt) = AttribSize(k)
              /\ VertexAttr(i, k) = At(SourceList(TableNames[k]), i)

\* a container with the two skin attributes and several vertex records
AttributeOrderWitness ==
    /\ Complete
    /\ export_skinning_data
    /\ AttribName(5) = "jointIndices"
    /\ AttribOffset(5) = 48
    /\ vertexCount >= 2
    /\ VertexAttr(1, 1) # VertexAttr(0, 1)
    /\ VertexAttr(1, 5) # VertexAttr(0, 5)

\* the mesh has no vertices or no corners
EmptyMesh == Len(mesh.vertices) = 0 \/ Len(mesh.loops) = 0

\* C14: for a mesh without vertices or without corners export_mesh fails
\* only when the file system does, and the container it writes has
\* vertexCount 0 and indexCount 0 in the header, the attribute table, no
\* vertex record and an empty index buffer.  (Violated: without a UV layer
\* map_vertex_uvs raises before the header is written.)
EmptyMeshExports ==
    EmptyMesh =>
        /\ pc = "failed" => error = "OSError"
        /\ Complete =>
              /\ vertexCount = 0
              /\ indexCount = 0
              /\ attributeCount = 3
              /\ Len(file.written) = TableEnd + 1
              /\ VertexBuffer = << >>
              /\ IndexBuffer.vals = << >>

\* C15: with skinning enabled, after the loop over the vertices every
\* output index 0 .. num_vertices - 1 has a tuple of 4 joint weights and a
\* tuple of 4 joint indices, and the output vertices of the permutations of
\* one source vertex have the same two tuples; a written container holds
\* these tuples.
SkinPerPermutation ==
    /\ (AfterVertices /\ export_skinning_data) =>
          /\ Len(joint_weights) = num_vertices
          /\ Len(joint_indices) = num_vertices
          /\ \A i \in Range0(num_vertices) :
                /\ At(joint_weights, i) # None /\ Len(At(joint_weights, i)) = 4
                /\ At(joint_indices, i) # None /\ Len(At(joint_indices, i)) = 4
          /\ \A v \in 1 .. Len(vertex_perms) : \A p, q \in 1 .. Len(vertex_perms[v]) :
                /\ At(joint_weights, vertex_perms[v][p][1])
                      = At(joint_weights, vertex_perms[v][q][1])
                /\ At(joint_indices, vertex_perms[v][p][1])
                      = At(joint_indices, vertex_perms[v][q][1])
    /\ (Complete /\ export_skinning_data) =>
          \A v \in 1 .. Len(vertex_perms) : \A p, q \in 1 .. Len(vertex_perms[v]) :
              /\ VertexAttr(vertex_perms[v][p][1], 4) = VertexAttr(vertex_perms[v][q][1], 4)
              /\ VertexAttr(vertex_perms[v][p][1], 5) = VertexAttr(vertex_perms[v][q][1], 5)

\* a written container in which a source vertex with influences has two
\* output vertices and another source vertex has other influences
SkinPerPermutationWitness ==
    /\ Complete /\ export_skinning_data
    /\ \E v, w \in 1 .. Len(vertex_perms) :
          /\ Len(vertex_perms[v]) >= 2
          /\ vertex_perms[v][1][1] # vertex_perms[v][2][1]
          /\ SumSeq(VertexAttr(vertex_perms[v][2][1], 4), 4) > 0
          /\ Len(vertex_perms[w]) >= 1
          /\ VertexAttr(vertex_perms[w][1][1], 5) # VertexAttr(vertex_perms[v][1][1], 5)

\* the mesh is a cube of the family, triangulated or not yet
IsCube == Len(mesh.vertices) = 8 /\ IsCubeMesh([mesh EXCEPT !.loop_triangles = << >>])

\* C16: for a hard-shaded cube with a UV island per face the triangulation
\* has 12 triangles, find_vertex_permutations returns 3 permutations for
\* each of the 8 vertices and 24 output vertices, and the written container
\* has vertexCount 24 and indexCount 36.
CubeCounts ==
    IsCube =>
        /\ AfterPermutations =>
              /\ Len(mesh.loop_triangles) = 12
              /\ Len(vertex_perms) = 8
              /\ \A v \in 1 .. 8 : Len(vertex_perms[v]) = 3
              /\ num_vertices = 24
        /\ Complete =>
              /\ vertexCount = 24
              /\ indexCount = 36
              /\ Len(IndexBuffer.vals) = 36
              /\ Len(VertexBuffer) = 24 * attributeCount

\* a written cube whose islands overlap: a vertex has the same UV in two
\* of its faces and still three output vertices
CubeCountsWitness ==
    /\ IsCube /\ pc = "done"
    /\ \E v \in 1 .. 8 : Len(vertex_uvs[v]) < 3 /\ Len(vertex_perms[v]) = 3
    /\ vertexCount = 24

\* C18: in a written container the index at position 3t + k, for triangle
\* t of the triangulation and its corner k, is an output vertex whose
\* position is the remapped coordinate of the source vertex of the corner
\* and whose normal and UV are the representatives of the normal cluster
\* and the UV cluster of the corner; the index buffer has no other entry.
IndexRemapFaithful ==
    Complete =>
        /\ Len(IndexBuffer.vals) = 3 * Len(mesh.loop_triangles)
        /\ \A t \in 1 .. Len(mesh.loop_triangles) : \A k \in 1 .. 3 :
              LET l == mesh.loop_triangles[t].loops[k]
                  v == At(mesh.loops, l).vertex_index
                  i == IndexBuffer.vals[3 * (t - 1) + k]
              IN  /\ InverseRemap(VertexAttr(i, 1)) = At(mesh.vertices, v).co
                  /\ VertexAttr(i, 2) = At(At(vertex_normals, v), At(loop_normal_inds, l))[1]
                  /\ VertexAttr(i, 3) = At(At(vertex_uvs, v), At(loop_uv_inds, l))[1]

\* a written container in which two corners of one source vertex, in two
\* triangles, got two output vertices, and two corners one output vertex
IndexRemapFaithfulWitness ==
    /\ pc = "done"
    /\ \E a, b \in 1 .. Len(IndexBuffer.vals) :
          /\ (a - 1) \div 3 # (b - 1) \div 3
          /\ IndexBuffer.vals[a] # IndexBuffer.vals[b]
          /\ VertexAttr(IndexBuffer.vals[a], 1) = VertexAttr(IndexBuffer.vals[b], 1)
          /\ VertexAttr(IndexBuffer.vals[a], 2) # VertexAttr(IndexBuffer.vals[b], 2)
    /\ \E a, b \in 1 .. Len(IndexBuffer.vals) :
          a # b /\ IndexBuffer.vals[a] = IndexBuffer.vals[b]

\* ------------------------------------------------------------------------
\* the execute of the baker before baker_index has returned, and that
\* baker was enabled
BakerReturned ==
    /\ bpc = "bakers"
    /\ baker_index > 1
    /\ Enabled(Bakers[baker_index - 1])

\* no material is in two slots of the selection
NoSharedTree ==
    \A i, j \in 1 .. Len(Slots(selection)) :
        Slots(selection)[i] = Slots(selection)[j] => i = j

\* C17: when the execute of an enabled baker has returned, every node tree
\* is back in the state it had when that baker was called: the same nodes,
\* the same links between the same sockets and the same default values,
\* also when a tree was prepared for more than one slot.
TreesRestored ==
    BakerReturned =>
        \A m \in Materials : Shape(trees[m]) = Shape(trees_prebake[m])

\* C19: when the operator has returned, every tree has as many nodes as
\* when the operator was called, none of the added Image Texture nodes is
\* left, and the render engine and the samples are the ones of the call.
OperatorCleansUp ==
    bpc = "done" =>
        /\ \A m \in Materials :
              /\ Cardinality(trees[m].nodes) = Cardinality(before.trees[m].nodes)
              /\ trees[m].nodes = before.trees[m].nodes
        /\ engine = before.engine
        /\ samples = before.samples

====
